---- MODULE Spec2Model ----
(***************************************************************************)
(* Build / save / restore lifecycle of DeepNeuralNetwork                   *)
(* (neural_networks/core/_dnn.py) with the argument checkers of            *)
(* data/utils/_utils.py.                                                   *)
(*                                                                         *)
(* Python values are tagged records [ty |-> <python type>, ...] so that    *)
(* isinstance() checks can be modelled.  Dicts are functions whose DOMAIN  *)
(* is the set of keys; OrderedDicts are sequences of [name, layer] pairs.  *)
(* Layer names are real strings, built with the same formatting as the     *)
(* code ('%s_%s').                                                         *)
(***************************************************************************)
EXTENDS Integers, Sequences, FiniteSets, TLC

VARIABLES
    net,      \* the network instance (under construction, or bound)
    pc,       \* position inside DeepNeuralNetwork.__init__, or "idle"
    error,    \* the exception raised by the last step / operation
    called,   \* the arguments exactly as the caller passed them to __init__
    disk,     \* the .npy dump file written by save_model
    op,       \* the last public operation that ran
    ret,      \* what the last load_dumped_model returned
    owner     \* TRUE when the dump on disk was written by this very instance

vars == <<net, pc, error, called, disk, op, ret, owner>>

(***************************** bounds **************************************)
MaxLayers == 2     \* longest layers_config drawn as an input
MaxTargets == 2    \* largest |n_targets| and norm_params length drawn
MaxRank == 3       \* longest input_shape drawn
MaxVal == 1        \* parameter values range over 0..MaxVal
NumIds == 2        \* id(self) ranges over 1..NumIds
MaxSessions == 2   \* sessions an instance opens itself before restarts stop

(************************* python values ***********************************)
NoKw == [k \in {} |-> "x"]                       \* the empty dict {}
PyStr(s) == [ty |-> "str", v |-> s]
PyType(c) == [ty |-> "type", v |-> c]
PyInt(n) == [ty |-> "int", v |-> n]
PyDict(f) == [ty |-> "dict", v |-> f]
None == [ty |-> "NoneType", shape |-> <<>>]
Tuple(items) == [ty |-> "tuple", items |-> items]
List(items) == [ty |-> "list", items |-> items]

NoErr == [type |-> "none", site |-> "none"]
Err(t, s) == [type |-> t, site |-> s]

\* dict.pop(key, default) is modelled by pop and Drop; d[key] = v by Put
Has(d, k) == k \in DOMAIN d
Drop(d, k) == [j \in DOMAIN d \ {k} |-> d[j]]
\* a pop that never finds the key
pop_default(d, k, default) == default
\* the value dict.pop(key, default) returns
pop(d, k, default) == IF Has(d, k) THEN d[k] ELSE default
Put(d, k, val) == [j \in DOMAIN d \cup {k} |-> IF j = k THEN val ELSE d[j]]
\* a setdefault that overwrites the value held
setdefault_reset(d, k, default) == Put(d, k, default)
\* the dict after d.setdefault(key, default)
setdefault(d, k, default) == IF Has(d, k) THEN d ELSE Put(d, k, default)

(************************ utils/_utils.py **********************************)
\* TRUE when the check passes, FALSE when it raises TypeError
check_type_validity(instance, valid_types) ==
    LET types == IF "float" \in valid_types /\ "int" \notin valid_types
                 THEN valid_types \cup {"int"} ELSE valid_types
    IN  instance.ty \in types

\* check_positive_int with `<` for `<=`
check_positive_int_nonneg(instance, var_name) ==
    IF ~check_type_validity(instance, {"int"}) THEN Err("TypeError", var_name)
    ELSE IF instance.v < 0 THEN Err("ValueError", var_name)
    ELSE NoErr

\* the error raised by check_positive_int, NoErr when it returns
check_positive_int(instance, var_name) ==
    IF ~check_type_validity(instance, {"int"}) THEN Err("TypeError", var_name)
    ELSE IF instance.v <= 0 THEN Err("ValueError", var_name)
    ELSE NoErr

(************************ instance record **********************************)
NoArgs ==
    [input_shape |-> [ty |-> "NoneType", dims |-> <<>>],
     n_targets |-> PyInt(0),
     layers_config |-> List(<<>>),
     norm_params |-> None,
     kwargs |-> NoKw]

\* the object as allocated, before __init__ has run a line
NewInstance(args, id, overrides) ==
    [alive |-> TRUE,
     id |-> id,
     overrides |-> overrides,      \* subclass overrides _adjust_init_arguments_for_saving
     init_arguments |-> args,
     holders |-> {},
     layers |-> <<>>,
     phases |-> <<>>,
     session |-> "unset",
     sess |-> None,                \* the tf.Session object held by self.session
     opened |-> 0,                 \* how many sessions the instance has opened
     closed |-> {},                \* the session objects it has closed
     init_in |-> None]             \* the session the initializer last ran in

NoNet == [NewInstance(NoArgs, 0, FALSE) EXCEPT !.alive = FALSE]

NoDump ==
    [exists |-> FALSE, init |-> NoArgs, class |-> "none", rebuild |-> "None",
     architecture |-> <<>>, values |-> <<>>]


(************************ layer classes ************************************)
\* the classes imported from neural_networks.components and their bases
BaseOf(cls) ==
    CASE cls = "DenseLayer" -> "NeuralLayer"
      [] cls = "RecurrentNeuralNetwork" -> "AbstractRNN"
      [] cls = "BidirectionalRNN" -> "AbstractRNN"
      [] cls = "LowpassFilter" -> "SignalFilter"
      [] OTHER -> "object"

issubclass(cls, bases) == cls \in bases \/ BaseOf(cls) \in bases

\* the registry without the bidirectional stack
reference_dict_short ==
    [dense_layer |-> "DenseLayer", rnn_stack |-> "RecurrentNeuralNetwork",
     lowpass_filter |-> "LowpassFilter"]

\* get_object(name, reference_dict, 'layer class'): the dict lookup
reference_dict ==
    [dense_layer |-> "DenseLayer", rnn_stack |-> "RecurrentNeuralNetwork",
     bi_rnn_stack |-> "BidirectionalRNN", lowpass_filter |-> "LowpassFilter"]

get_object(name, reference) ==
    IF name \in DOMAIN reference
    THEN [err |-> NoErr, cls |-> reference[name]]
    ELSE [err |-> Err("KeyError", name), cls |-> "none"]

get_layer_class(layer_class) ==
    IF layer_class.ty = "str" THEN get_object(layer_class.v, reference_dict)
    ELSE IF issubclass(layer_class.v, {"AbstractRNN", "NeuralLayer", "SignalFilter"})
    THEN [err |-> NoErr, cls |-> layer_class.v]
    ELSE [err |-> Err("TypeError", "layer_class"), cls |-> "none"]

\* the configuration descriptor a layer reports
LayerConfiguration(layer) == [class |-> layer.cls, n_units |-> layer.n_units]

(************************ _validate_args ***********************************)
EmptyKwargs == PyDict(NoKw)

\* a 2-tuple left as it is
NormalizeConfig_keep(config) == config

\* lines 265-266: a 2-tuple is extended with an empty dict
NormalizeConfig(config) ==
    IF Len(config.items) = 2
    THEN [config EXCEPT !.items = Append(config.items, EmptyKwargs)]
    ELSE config

\* lines 262-274 for element i: the list after the in-place normalisation
\* and the error raised (NoErr when the element is accepted)
ValidateConfig(items, i) ==
    IF items[i].ty # "tuple"
    THEN [items |-> items, err |-> Err("TypeError", "layers_config element")]
    ELSE
      LET config == NormalizeConfig(items[i])
          done == [items EXCEPT ![i] = config]
      IN  IF Len(config.items) # 3
          THEN [items |-> items, err |-> Err("TypeError", "layers_config length")]
          ELSE IF ~check_type_validity(config.items[1], {"str", "type"})
          THEN [items |-> done, err |-> Err("TypeError", "layer class")]
          ELSE IF ~check_type_validity(config.items[2], {"int", "list", "tuple"})
          THEN [items |-> done, err |-> Err("TypeError", "layer config primary parameter")]
          ELSE IF ~check_type_validity(config.items[3], {"dict"})
          THEN [items |-> done, err |-> Err("TypeError", "layer config kwargs")]
          ELSE [items |-> done, err |-> NoErr]

\* lines 261-274, the loop from element i on; it stops at the first error
RECURSIVE ValidateLayersConfig(_, _)
ValidateLayersConfig(items, i) ==
    IF i > Len(items) THEN [items |-> items, err |-> NoErr]
    ELSE CHOOSE out \in
            {IF r.err # NoErr THEN r ELSE ValidateLayersConfig(r.items, i + 1) :
                r \in {ValidateConfig(items, i)}} : TRUE

\* the shape test reduced to a test of the rank
NormShapeMismatch_rank(norm_params, n_targets) ==
    Len(norm_params.shape) # 1

\* line 282: norm_params.shape != (self.n_targets,)
NormShapeMismatch(norm_params, n_targets) ==
    norm_params.shape # <<n_targets.v>>

\* line 257: the rank test on input_shape
InputShapeTooShort(input_shape) == Len(input_shape.dims) = 1

\* lines 275-286
ValidateTargets(self) ==
    LET a == self.init_arguments
        e == check_positive_int(a.n_targets, "n_targets")
    IN  IF e # NoErr THEN e
        ELSE IF ~check_type_validity(a.norm_params, {"ndarray", "NoneType"})
        THEN Err("TypeError", "norm_params")
        ELSE IF a.norm_params.ty # "NoneType"
                /\ NormShapeMismatch(a.norm_params, a.n_targets)
        THEN Err("TypeError", "norm_params shape")
        ELSE NoErr

\* _validate_args: the instance afterwards and the error raised
ValidateArgs(self) ==
    LET a == self.init_arguments IN
    IF ~check_type_validity(a.input_shape, {"tuple", "list", "TensorShape"})
    THEN [self |-> self, err |-> Err("TypeError", "input_shape")]
    ELSE IF InputShapeTooShort(a.input_shape)
    THEN [self |-> self, err |-> Err("TypeError", "input_shape rank")]
    ELSE IF ~check_type_validity(a.layers_config, {"list"})
    THEN [self |-> self, err |-> Err("TypeError", "layers_config")]
    ELSE
      CHOOSE out \in
        {LET s1 == [self EXCEPT !.init_arguments.layers_config.items = r.items]
             e == ValidateTargets(self)
         IN  IF r.err # NoErr THEN [self |-> s1, err |-> r.err]
             ELSE IF e # NoErr THEN [self |-> s1, err |-> e]
             ELSE [self |-> [s1 EXCEPT !.phases = Append(@, "validate_args")],
                   err |-> NoErr] :
            r \in {ValidateLayersConfig(a.layers_config.items, 1)}} : TRUE

(************************ _build_placeholders ******************************)
\* lines 291-295; input_shape[0] raises IndexError on an empty shape
BuildPlaceholders(self) ==
    LET h1 == self.holders \cup {"input"} IN
    IF Len(self.init_arguments.input_shape.dims) = 0
    THEN [self |-> [self EXCEPT !.holders = h1], err |-> Err("IndexError", "input_shape[0]")]
    ELSE [self |-> [self EXCEPT !.holders = h1 \cup {"targets", "keep_prob"},
                                !.phases = Append(@, "build_placeholders")],
          err |-> NoErr]

(************************ _build_hidden_layers ******************************)
KeepProbHolder == "placeholder:keep_prob"

\* a formatting that leaves the suffix out
Suffixed_bare(name, n) == name

\* '%s_%s' formatting of lines 308 and 314
Suffixed(name, n) == name \o "_" \o ToString(n)

\* OrderedDict.__setitem__: an existing key keeps its place, its value is replaced
IndexOfKey(od, key) ==
    IF \E i \in 1..Len(od) : od[i].name = key
    THEN CHOOSE i \in 1..Len(od) : od[i].name = key
    ELSE 0

SetItem(od, key, value) ==
    IF IndexOfKey(od, key) = 0
    THEN Append(od, [name |-> key, layer |-> value])
    ELSE [od EXCEPT ![IndexOfKey(od, key)] = [name |-> key, layer |-> value]]

\* layer_class(input_tensor, n_units, [keep_prob=...,] **kwargs)
Layer(cls, n_units, keep_prob, kwargs) ==
    [cls |-> cls, n_units |-> n_units.v, keep_prob |-> keep_prob,
     kwargs |-> kwargs, value |-> 0]

\* lines 305-325 for element i.  st = [items, layers, count, err]: the
\* (mutated) layers_config list, self._layers, layers_count, the error raised
BuildLayer(st, i, id) ==
    LET name == st.items[i].items[1]
        n_units == st.items[i].items[2]
        kwargs == st.items[i].items[3].v
        found == get_layer_class(name)
    IN
    IF found.err # NoErr THEN [st EXCEPT !.err = found.err]
    ELSE IF name.ty # "str"
    THEN [st EXCEPT !.err = Err("TypeError", "name + str")]
    ELSE
      LET count0 == setdefault(st.count, name.v, 0)
          layer_name == pop(kwargs, "name", Suffixed(name.v, count0[name.v]))
          kw1 == Drop(kwargs, "name")
          trainable == issubclass(found.cls, {"DenseLayer", "AbstractRNN"})
          kw2 == IF trainable /\ issubclass(found.cls, {"AbstractRNN"})
                 THEN Put(kw1, "name", Suffixed(layer_name, id))
                 ELSE kw1
          keep_prob == pop(kw2, "keep_prob", KeepProbHolder)
          kw3 == IF trainable THEN Drop(kw2, "keep_prob") ELSE kw2
          layer == IF trainable THEN Layer(found.cls, n_units, keep_prob, kw3)
                   ELSE Layer(found.cls, n_units, "absent", kw3)
      IN  [items |-> [st.items EXCEPT ![i].items[3].v = kw3],
           layers |-> SetItem(st.layers, layer_name, layer),
           count |-> [count0 EXCEPT ![name.v] = @ + 1],
           err |-> NoErr]

\* lines 304-325, the loop from element i on; it stops at the first error
RECURSIVE BuildLayersFrom(_, _, _)
BuildLayersFrom(st, i, id) ==
    IF i > Len(st.items) THEN st
    ELSE CHOOSE out \in
            {IF r.err # NoErr THEN r ELSE BuildLayersFrom(r, i + 1, id) :
                r \in {BuildLayer(st, i, id)}} : TRUE

BuildHiddenLayers(self) ==
    CHOOSE out \in
      {LET s1 == [self EXCEPT !.init_arguments.layers_config.items = st.items,
                              !.layers = st.layers]
       IN  IF st.err # NoErr THEN [self |-> s1, err |-> st.err]
           ELSE [self |-> [s1 EXCEPT !.phases = Append(@, "build_hidden_layers")],
                 err |-> NoErr] :
          st \in {BuildLayersFrom(
                    [items |-> self.init_arguments.layers_config.items,
                     layers |-> self.layers, count |-> NoKw, err |-> NoErr],
                    1, self.id)}} : TRUE

(************************ abstract hooks ***********************************)
\* _build_readout_layer, _build_readouts, _build_training_function: the
\* subclass's hooks; the base class fixes only when each runs
BuildReadoutLayer(self) ==
    [self |-> [self EXCEPT !.phases = Append(@, "build_readout_layer")], err |-> NoErr]

BuildReadouts(self) ==
    [self |-> [self EXCEPT !.phases = Append(@, "build_readouts")], err |-> NoErr]

BuildTrainingFunction(self) ==
    [self |-> [self EXCEPT !.phases = Append(@, "build_training_function")],
     err |-> NoErr]

(************************ properties and reset *****************************)
\* architecture: OrderedDict name -> layer.configuration
architecture(self) ==
    [i \in 1..Len(self.layers) |->
        [name |-> self.layers[i].name,
         configuration |-> LayerConfiguration(self.layers[i].layer)]]

\* get_values(): name -> layer.get_values(session)
get_values(self) ==
    [i \in 1..Len(self.layers) |->
        [name |-> self.layers[i].name, value |-> self.layers[i].layer.value]]

\* the vectors of fresh values the initializer can produce for n layers
RECURSIVE SeqsOfLen(_, _)
SeqsOfLen(S, n) ==
    IF n = 0 THEN {<<>>}
    ELSE {Append(q, x) : q \in SeqsOfLen(S, n - 1), x \in S}

FreshValues(self) == SeqsOfLen(0..MaxVal, Len(self.layers))

\* tf.Session(): the n-th session object the instance opens
NewSession(n) == [ty |-> "Session", v |-> "tf.Session_" \o ToString(n)]

\* lines 240-242: self.session.close(); self.session = tf.Session(...)
RestartSession(self) ==
    [self EXCEPT !.closed = @ \cup {self.sess},
                 !.sess = NewSession(self.opened + 1),
                 !.opened = @ + 1,
                 !.session = "restarted"]

\* line 243: self.session.run(tf.global_variables_initializer())
RunInitializer(self, fresh) ==
    [self EXCEPT
        !.init_in = self.sess,
        !.layers = [i \in 1..Len(self.layers) |->
                        [self.layers[i] EXCEPT !.layer.value = fresh[i]]]]

\* reset_model with the initializer run before the session is replaced
reset_model_init_first(self, restart_session, fresh) ==
    IF restart_session THEN RestartSession(RunInitializer(self, fresh))
    ELSE RunInitializer(self, fresh)

\* reset_model that also empties the layer stack
reset_model_clearing(self, restart_session, fresh) ==
    [RunInitializer(IF restart_session THEN RestartSession(self) ELSE self, fresh)
        EXCEPT !.layers = <<>>]

\* reset_model: the session's initializer gives every parameter a new value
reset_model(self, restart_session, fresh) ==
    RunInitializer(IF restart_session THEN RestartSession(self) ELSE self, fresh)

(************************ session assignment *******************************)
\* lines 154-160 with reset_model also run on a session the caller passed
AssignSession_always_reset(self, fresh) ==
    LET kwargs == self.init_arguments.kwargs IN
    IF Has(kwargs, "session")
    THEN IF ~check_type_validity(kwargs["session"], {"Session"})
         THEN [self |-> self, err |-> Err("TypeError", "session")]
         ELSE [self |-> reset_model([self EXCEPT !.session = "given",
                                                 !.sess = kwargs["session"],
                                                 !.phases = Append(@, "session")],
                                    FALSE, fresh),
               err |-> NoErr]
    ELSE [self |-> reset_model([self EXCEPT !.session = "created",
                                            !.sess = NewSession(self.opened + 1),
                                            !.opened = @ + 1,
                                            !.phases = Append(@, "session")],
                               FALSE, fresh),
          err |-> NoErr]

\* lines 154-160
AssignSession(self, fresh) ==
    LET kwargs == self.init_arguments.kwargs IN
    IF Has(kwargs, "session")
    THEN IF ~check_type_validity(kwargs["session"], {"Session"})
         THEN [self |-> self, err |-> Err("TypeError", "session")]
         ELSE [self |-> [self EXCEPT !.session = "given",
                                     !.sess = kwargs["session"],
                                     !.phases = Append(@, "session")],
               err |-> NoErr]
    ELSE [self |-> reset_model([self EXCEPT !.session = "created",
                                            !.sess = NewSession(self.opened + 1),
                                            !.opened = @ + 1,
                                            !.phases = Append(@, "session")],
                               FALSE, fresh),
          err |-> NoErr]

(************************ __init__ ******************************************)
\* __init__ with the readouts built before the readout layer
InitOrder_readouts_first ==
    <<"validate_args", "build_placeholders", "build_hidden_layers",
      "build_readouts", "build_readout_layer", "build_training_function",
      "session">>

\* __init__ with the placeholders built before the arguments are validated
InitOrder_late_validation ==
    <<"build_placeholders", "validate_args", "build_hidden_layers",
      "build_readout_layer", "build_readouts", "build_training_function",
      "session">>

\* lines 141-160: the steps of __init__ in program order
InitOrder ==
    <<"validate_args", "build_placeholders", "build_hidden_layers",
      "build_readout_layer", "build_readouts", "build_training_function",
      "session">>

StepIndex(step) == CHOOSE k \in 1..Len(InitOrder) : InitOrder[k] = step

NextPc(step) ==
    IF StepIndex(step) = Len(InitOrder) THEN "done"
    ELSE InitOrder[StepIndex(step) + 1]

RunStep(self, step, fresh) ==
    CASE step = "validate_args" -> ValidateArgs(self)
      [] step = "build_placeholders" -> BuildPlaceholders(self)
      [] step = "build_hidden_layers" -> BuildHiddenLayers(self)
      [] step = "build_readout_layer" -> BuildReadoutLayer(self)
      [] step = "build_readouts" -> BuildReadouts(self)
      [] step = "build_training_function" -> BuildTrainingFunction(self)
      [] step = "session" -> AssignSession(self, fresh)

\* the methods decorated with @onetimemethod (lines 250, 288, 297, 328, 337, 346)
GuardedSteps ==
    {"validate_args", "build_placeholders", "build_hidden_layers",
     "build_readout_layer", "build_readouts", "build_training_function"}

\* a decorator that lets every call through
onetimemethod_unguarded(self, step, fresh) == RunStep(self, step, fresh)

\* @onetimemethod: the second call of a guarded method on the same instance
\* raises instead of running the method
onetimemethod(self, step, fresh) ==
    IF step \in GuardedSteps /\ \E i \in 1..Len(self.phases) : self.phases[i] = step
    THEN [self |-> self, err |-> Err("RuntimeError", "onetimemethod")]
    ELSE RunStep(self, step, fresh)

\* the whole constructor from step k on: the instance and the error raised
RECURSIVE RunInit(_, _, _)
RunInit(self, k, fresh) ==
    IF k > Len(InitOrder) THEN [self |-> self, err |-> NoErr]
    ELSE CHOOSE out \in
            {IF r.err # NoErr THEN r ELSE RunInit(r.self, k + 1, fresh) :
                r \in {onetimemethod(self, InitOrder[k], fresh)}} : TRUE

(************************ caller inputs ************************************)
RECURSIVE SeqsUpTo(_, _)
SeqsUpTo(S, n) ==
    IF n = 0 THEN {<<>>} ELSE SeqsUpTo(S, n - 1) \cup SeqsOfLen(S, n)

Entry2(kind, n) == Tuple(<<PyStr(kind), PyInt(n)>>)
Entry3(kind, n, kw) == Tuple(<<PyStr(kind), PyInt(n), PyDict(kw)>>)

\* layer specs that pass validation
GoodEntries ==
    {Entry2("dense_layer", 8),
     Entry3("dense_layer", 8, [name |-> "custom"]),
     Entry3("dense_layer", 8, [name |-> "dense_layer_1"]),
     Entry3("dense_layer", 8, [keep_prob |-> "None"]),
     Entry3("rnn_stack", 8, NoKw),
     Entry3("bi_rnn_stack", 8, NoKw),
     Entry3("lowpass_filter", 8, NoKw),
     Entry3("lowpass_filter", 8, [keep_prob |-> "None"]),
     Entry3("unknown_kind", 8, NoKw),
     Tuple(<<PyType("DenseLayer"), PyInt(8), PyDict(NoKw)>>),
     Tuple(<<PyType("int"), PyInt(8), PyDict(NoKw)>>)}

\* layer specs that are malformed
BadEntries ==
    {List(<<PyStr("dense_layer"), PyInt(8)>>),
     Tuple(<<PyStr("dense_layer")>>),
     Tuple(<<PyStr("dense_layer"), PyInt(8), PyDict(NoKw), PyDict(NoKw)>>),
     Tuple(<<[ty |-> "int", v |-> "8"], PyInt(8), PyDict(NoKw)>>),
     Tuple(<<PyStr("dense_layer"), [ty |-> "float", v |-> 8]>>),
     Tuple(<<PyStr("dense_layer"), PyInt(8), [ty |-> "list", v |-> NoKw]>>)}

Entries == GoodEntries \cup BadEntries

ShapeOfLen(n) == [i \in 1..n |-> IF i = 1 THEN 0 ELSE 40]

InputShapes ==
    {[ty |-> "int", dims |-> <<>>]}
    \cup {[ty |-> "tuple", dims |-> ShapeOfLen(n)] : n \in 0..MaxRank}

TargetCounts ==
    {[ty |-> "float", v |-> 1]} \cup {PyInt(n) : n \in (0 - MaxTargets)..MaxTargets}

NormParams ==
    {None, [ty |-> "list", shape |-> <<1>>]}
    \cup {[ty |-> "ndarray", shape |-> <<n>>] : n \in 0..MaxTargets}
    \cup {[ty |-> "ndarray", shape |-> <<n, 1>>] : n \in 1..MaxTargets}

SessionKwargs ==
    {NoKw, [session |-> [ty |-> "Session", v |-> "s"]],
     [session |-> [ty |-> "str", v |-> "s"]]}

Args(shape, n, config, norm, kw) ==
    [input_shape |-> shape, n_targets |-> n, layers_config |-> config,
     norm_params |-> norm, kwargs |-> kw]

DefaultShape == [ty |-> "tuple", dims |-> ShapeOfLen(2)]

\* layers_config values tried with every combination of the other arguments
FewConfigs ==
    {Tuple(<<>>), List(<<>>), List(<<Entry2("dense_layer", 8)>>),
     List(<<Entry3("unknown_kind", 8, NoKw)>>),
     List(<<Tuple(<<PyStr("dense_layer")>>)>>)}

\* every combination of the scalar arguments with a few layers_config, and
\* every layers_config up to MaxLayers with the scalar arguments valid
BuildArgs ==
    {Args(sh, n, c, norm, kw) :
        sh \in InputShapes, n \in TargetCounts, c \in FewConfigs,
        norm \in NormParams, kw \in SessionKwargs}
    \cup
    {Args(DefaultShape, PyInt(1), List(q), None, kw) :
        q \in SeqsUpTo(Entries, MaxLayers), kw \in SessionKwargs}

(************************ construction, step by step ***********************)
InitBuild ==
    /\ called \in BuildArgs
    /\ net = NewInstance(called, 1, FALSE)
    /\ pc = "validate_args"
    /\ error = NoErr
    /\ disk = NoDump
    /\ op = "__init__"
    /\ ret = "none"
    /\ owner = FALSE

\* one step of __init__: it completes, or raises and construction is over
Step(step, fresh) ==
    /\ pc = step
    /\ \E r \in {onetimemethod(net, step, fresh)} :
           /\ net' = r.self
           /\ error' = r.err
           /\ pc' = IF r.err # NoErr THEN "failed" ELSE NextPc(step)
    /\ UNCHANGED <<called, disk, op, ret, owner>>

DoValidateArgs ==
    /\ pc = "validate_args"
    /\ Step("validate_args", <<>>)

DoBuildPlaceholders ==
    /\ pc = "build_placeholders"
    /\ Step("build_placeholders", <<>>)

DoBuildHiddenLayers ==
    /\ pc = "build_hidden_layers"
    /\ Step("build_hidden_layers", <<>>)

DoBuildReadoutLayer ==
    /\ pc = "build_readout_layer"
    /\ Step("build_readout_layer", <<>>)

DoBuildReadouts ==
    /\ pc = "build_readouts"
    /\ Step("build_readouts", <<>>)

DoBuildTrainingFunction ==
    /\ pc = "build_training_function"
    /\ Step("build_training_function", <<>>)

DoAssignSession ==
    /\ pc = "session"
    /\ \E fresh \in FreshValues(net) : Step("session", fresh)

NextBuild ==
    \/ DoValidateArgs
    \/ DoBuildPlaceholders
    \/ DoBuildHiddenLayers
    \/ DoBuildReadoutLayer
    \/ DoBuildReadouts
    \/ DoBuildTrainingFunction
    \/ DoAssignSession

SpecBuild == InitBuild /\ [][NextBuild]_vars

(************************ save_model ****************************************)
\* __getattr__: an initialization argument of that name, or AttributeError
InitArgumentNames(self) ==
    {"input_shape", "n_targets", "layers_config", "norm_params"}
    \cup DOMAIN self.init_arguments.kwargs

getattr(self, name) ==
    IF name \in InitArgumentNames(self)
    THEN [err |-> NoErr, value |-> self.init_arguments]
    ELSE [err |-> Err("AttributeError", name), value |-> NoArgs]

\* _adjust_init_arguments_for_saving: the base method reads
\* self.init_arguments; a subclass that overrides it returns a copy of the
\* recorded arguments and no reconstruction hints
AdjustInitArgumentsForSaving(self) ==
    IF self.overrides
    THEN [err |-> NoErr, init |-> self.init_arguments, rebuild |-> "None"]
    ELSE LET a == getattr(self, "init_arguments")
         IN  [err |-> a.err, init |-> a.value, rebuild |-> "None"]

ClassPath(self) == IF self.overrides THEN "SavingNetwork" ELSE "Network"

\* save_model: the file afterwards and the error raised
save_model(self, file) ==
    LET adj == AdjustInitArgumentsForSaving(self) IN
    IF adj.err # NoErr THEN [file |-> file, err |-> adj.err]
    ELSE [file |-> [exists |-> TRUE, init |-> adj.init, class |-> ClassPath(self),
                    rebuild |-> adj.rebuild,
                    architecture |-> architecture(self),
                    values |-> get_values(self)],
          err |-> NoErr]

(************************ load_dumped_model *********************************)
\* instanciate(class, init, rebuild): calls the recorded class on the
\* recorded keyword arguments
instanciate(class, init, id, fresh) ==
    RunInit(NewInstance(init, id, class = "SavingNetwork"), 1, fresh)

\* config['values'][name]
ValueOf(values, name) ==
    (CHOOSE i \in 1..Len(values) : values[i].name = name)

\* lines 398-399: layer.set_values(config['values'][name], model.session)
SetValues(model, values) ==
    [model EXCEPT !.layers =
        [i \in 1..Len(model.layers) |->
            [model.layers[i] EXCEPT
                !.layer.value = values[ValueOf(values, model.layers[i].name)].value]]]

\* set_values on every layer the dump has values for
SetKnownValues(model, values) ==
    [model EXCEPT !.layers =
        [i \in 1..Len(model.layers) |->
            IF \E j \in 1..Len(values) : values[j].name = model.layers[i].name
            THEN [model.layers[i] EXCEPT
                    !.layer.value = values[ValueOf(values, model.layers[i].name)].value]
            ELSE model.layers[i]]]

\* lines 394-401 with the values written before the architectures are compared
CheckAndRestore_values_first(model, config, new_model) ==
    IF architecture(model) # config.architecture
    THEN [model |-> SetKnownValues(model, config.values),
          err |-> Err("TypeError", "architecture"), ret |-> "raised"]
    ELSE [model |-> SetValues(model, config.values), err |-> NoErr,
          ret |-> IF new_model THEN "model" ELSE "None"]

\* lines 394-401 with the model returned whether or not it was built here
CheckAndRestore_returns_model(model, config, new_model) ==
    IF architecture(model) # config.architecture
    THEN [model |-> model, err |-> Err("TypeError", "architecture"), ret |-> "raised"]
    ELSE [model |-> SetValues(model, config.values), err |-> NoErr, ret |-> "model"]

\* lines 394-401
CheckAndRestore(model, config, new_model) ==
    IF architecture(model) # config.architecture
    THEN [model |-> model, err |-> Err("TypeError", "architecture"), ret |-> "raised"]
    ELSE [model |-> SetValues(model, config.values), err |-> NoErr,
          ret |-> IF new_model THEN "model" ELSE "None"]

\* load_dumped_model(filename, model): the model afterwards, the error
\* raised and the value returned.  new_model is `model is None`.
load_dumped_model(file, model, new_model, id, fresh) ==
    IF ~file.exists
    THEN [model |-> model, err |-> Err("IOError", "np.load"), ret |-> "raised"]
    ELSE IF new_model
    THEN CHOOSE out \in
           {IF built.err # NoErr
            THEN [model |-> model, err |-> built.err, ret |-> "raised"]
            ELSE IF Has(file.init.kwargs, "session")
            THEN CheckAndRestore(built.self, file, TRUE)
            ELSE CHOOSE done \in
                   {CheckAndRestore(m, file, TRUE) :
                       m \in {reset_model(built.self, FALSE, fresh)}} : TRUE :
               built \in {instanciate(file.class, file.init, id, fresh)}} : TRUE
    ELSE CheckAndRestore(model, file, FALSE)

(************************ lifecycle *****************************************)
LifeArgs(q, kw) == Args(DefaultShape, PyInt(1), List(q), None, kw)

SessionGiven == [session |-> [ty |-> "Session", v |-> "s"]]

\* the constructor calls of the lifecycle: the arguments, and whether the
\* class called overrides _adjust_init_arguments_for_saving
LifeConfigs ==
    {<<Entry2("dense_layer", 8)>>,
     <<Entry2("dense_layer", 8), Entry3("dense_layer", 8, NoKw)>>,
     <<Entry3("dense_layer", 8, [name |-> "custom"])>>,
     <<Entry3("rnn_stack", 8, NoKw)>>,
     <<Entry3("unknown_kind", 8, NoKw)>>}

LifeCalls ==
    {[args |-> LifeArgs(q, NoKw), overrides |-> TRUE] : q \in LifeConfigs}
    \cup {[args |-> LifeArgs(<<Entry2("dense_layer", 8)>>, SessionGiven),
           overrides |-> TRUE]}
    \cup {[args |-> LifeArgs(<<Entry2("dense_layer", 8)>>, NoKw),
           overrides |-> FALSE]}

Init ==
    /\ net = NoNet
    /\ pc = "idle"
    /\ error = NoErr
    /\ called = NoArgs
    /\ disk = NoDump
    /\ op = "none"
    /\ ret = "none"
    /\ owner = FALSE

\* model = Network(**args): the name is bound only when __init__ returns
Construct ==
    /\ pc = "idle"
    /\ ~net.alive
    /\ \E call \in LifeCalls, id \in 1..NumIds :
       \E fresh \in SeqsOfLen(0..MaxVal, Len(call.args.layers_config.items)) :
          /\ id # net.id
          /\ \E r \in {RunInit(NewInstance(call.args, id, call.overrides), 1, fresh)} :
                 /\ net' = IF r.err = NoErr THEN r.self ELSE net
                 /\ owner' = IF r.err = NoErr THEN FALSE ELSE owner
                 /\ error' = r.err
    /\ op' = "__init__"
    /\ ret' = "none"
    /\ UNCHANGED <<pc, called, disk>>

\* del model: the caller drops the instance; the dump stays on disk
Delete ==
    /\ pc = "idle"
    /\ net.alive
    /\ net' = NoNet
    /\ owner' = FALSE
    /\ error' = NoErr
    /\ op' = "del"
    /\ ret' = "none"
    /\ UNCHANGED <<pc, called, disk>>

SaveModel ==
    /\ pc = "idle"
    /\ net.alive
    /\ \E r \in {save_model(net, disk)} :
           /\ disk' = r.file
           /\ error' = r.err
           /\ owner' = IF r.err = NoErr THEN TRUE ELSE owner
    /\ op' = "save_model"
    /\ ret' = "none"
    /\ UNCHANGED <<net, pc, called>>

ResetModel ==
    /\ pc = "idle"
    /\ net.alive
    /\ \E restart \in BOOLEAN, fresh \in FreshValues(net) :
          /\ restart => net.opened < MaxSessions
          /\ net' = reset_model(net, restart, fresh)
          /\ op' = IF restart THEN "reset_model(restart_session=True)"
                   ELSE "reset_model"
    /\ error' = NoErr
    /\ ret' = "none"
    /\ UNCHANGED <<pc, called, disk, owner>>

\* a build step called again on the constructed instance
RerunBuildStep ==
    /\ pc = "idle"
    /\ net.alive
    /\ \E step \in GuardedSteps :
       \E r \in {onetimemethod(net, step, <<>>)} :
          /\ net' = r.self
          /\ error' = r.err
    /\ op' = "rerun"
    /\ ret' = "none"
    /\ UNCHANGED <<pc, called, disk, owner>>

\* restore_model(filename): load_dumped_model(filename, model=self)
RestoreModel ==
    /\ pc = "idle"
    /\ net.alive
    /\ \E r \in {load_dumped_model(disk, net, FALSE, net.id, <<>>)} :
           /\ net' = r.model
           /\ error' = r.err
           /\ ret' = r.ret
    /\ op' = "restore_model"
    /\ UNCHANGED <<pc, called, disk, owner>>

\* model = load_dumped_model(filename): the name is bound only when the
\* call returns
LoadDumpedModel ==
    /\ pc = "idle"
    /\ \E id \in 1..NumIds :
       \E fresh \in SeqsOfLen(0..MaxVal, Len(disk.init.layers_config.items)) :
          /\ id # net.id
          /\ \E r \in {load_dumped_model(disk, net, TRUE, id, fresh)} :
                 /\ net' = IF r.err = NoErr THEN r.model ELSE net
                 /\ error' = r.err
                 /\ ret' = r.ret
                 /\ owner' = IF r.err = NoErr THEN FALSE ELSE owner
    /\ op' = "load_dumped_model"
    /\ UNCHANGED <<pc, called, disk>>

Next ==
    \/ Construct
    \/ Delete
    \/ SaveModel
    \/ ResetModel
    \/ RerunBuildStep
    \/ RestoreModel
    \/ LoadDumpedModel

Spec == Init /\ [][Next]_vars


(***************************************************************************)
(* Properties                                                              *)
(***************************************************************************)
IsPrefix(q, t) == Len(q) <= Len(t) /\ \A i \in 1..Len(q) : q[i] = t[i]
Range(q) == {q[i] : i \in 1..Len(q)}

AllHolders == {"input", "targets", "keep_prob"}
BuildSteps ==
    <<"validate_args", "build_placeholders", "build_hidden_layers",
      "build_readout_layer", "build_readouts", "build_training_function">>
Validated == "validate_args" \in Range(net.phases)
Constructing == pc # "idle"

\* what the documentation asks of the arguments, stated on the caller's values
EntryMalformed(e) == e.ty # "tuple" \/ Len(e.items) \notin {2, 3}
EntryTypeDefect(e) ==
    /\ ~EntryMalformed(e)
    /\ \/ e.items[1].ty \notin {"str", "type"}
       \/ e.items[2].ty \notin {"int", "list", "tuple"}
       \/ (Len(e.items) = 3 /\ e.items[3].ty # "dict")
ShapeTypeDefect(a) == a.input_shape.ty \notin {"tuple", "list", "TensorShape"}
ConfigTypeDefect(a) == a.layers_config.ty # "list"
SpecMalformed(a) ==
    /\ ~ConfigTypeDefect(a)
    /\ \E i \in 1..Len(a.layers_config.items) : EntryMalformed(a.layers_config.items[i])
SpecDefect(a) ==
    /\ ~ConfigTypeDefect(a)
    /\ \E i \in 1..Len(a.layers_config.items) :
          \/ EntryMalformed(a.layers_config.items[i])
          \/ EntryTypeDefect(a.layers_config.items[i])
TargetsDefect(a) == a.n_targets.ty # "int" \/ a.n_targets.v <= 0
NormDefect(a) ==
    \/ a.norm_params.ty \notin {"ndarray", "NoneType"}
    \/ /\ a.norm_params.ty = "ndarray"
       /\ a.n_targets.ty = "int"
       /\ a.norm_params.shape # <<a.n_targets.v>>
ValidationDefect(a) ==
    \/ ShapeTypeDefect(a) \/ ConfigTypeDefect(a) \/ SpecDefect(a)
    \/ TargetsDefect(a) \/ NormDefect(a)
\* the arguments checked before n_targets are in order
ShapeAndConfigFine(a) ==
    /\ ~ShapeTypeDefect(a) /\ Len(a.input_shape.dims) # 1
    /\ ~ConfigTypeDefect(a) /\ ~SpecDefect(a)

\* C1: save_model followed by restore_model on the same instance succeeds
\* and gives back the architecture and the parameter values the instance had
\* when it was saved, whatever the values were changed to in between.
C1_SaveRestoreRoundTrip ==
    /\ op = "save_model" => error = NoErr
    /\ (op = "restore_model" /\ owner) =>
          /\ error = NoErr
          /\ architecture(net) = disk.architecture
          /\ get_values(net) = disk.values

\* C2: load_dumped_model(path) with no instance, on a dump written by
\* save_model, rebuilds an instance with the dump's architecture: it raises
\* nothing and returns an instance holding the dumped values.
C2_DumpRebuildsNetwork ==
    (op = "load_dumped_model" /\ disk.exists) =>
        /\ error = NoErr
        /\ ret = "model"
        /\ architecture(net) = disk.architecture
        /\ get_values(net) = disk.values

\* C3: restore_model on an instance whose architecture differs from the
\* dump's raises the architecture-mismatch error and changes nothing of the
\* instance: no parameter value is written.
C3_RestoreAllOrNothing ==
    [][(op' = "restore_model" /\ disk.exists
        /\ architecture(net) # disk.architecture)
       => (error' = Err("TypeError", "architecture") /\ net' = net)]_vars

C3_Witness ==
    /\ op = "restore_model"
    /\ error = Err("TypeError", "architecture")
    /\ \E i \in 1..Len(net.layers), j \in 1..Len(disk.values) :
          /\ net.layers[i].name = disk.values[j].name
          /\ net.layers[i].layer.value # disk.values[j].value

\* C4: after a successful construction the layer stack has one entry per
\* layer spec (the generated names are pairwise distinct), in the order of
\* layers_config.
C4_OneLayerPerSpec ==
    pc = "done" =>
        /\ Len(net.layers) = Len(called.layers_config.items)
        /\ \A i, j \in 1..Len(net.layers) :
              i # j => net.layers[i].name # net.layers[j].name

\* C5 (as claimed): whenever construction raises, no placeholder and no
\* layer has been created.  Stated for an input_shape that is not empty, the
\* empty one being the subject of C9.
C5_NoSideEffectBeforeAnyFailure ==
    (pc = "failed" /\ Len(called.input_shape.dims) # 0) =>
        (net.holders = {} /\ net.layers = <<>>)

\* C5 (amended): arguments that validation rejects (wrong type, malformed
\* layer spec, non-positive n_targets, bad norm_params shape) fail before any
\* placeholder or layer exists; an unknown layer-kind name is raised while the
\* hidden layers are built, the three placeholders existing; a session of the
\* wrong type is raised after the six build steps have completed.
C5_ValidationFailsBeforeSideEffects ==
    /\ (ValidationDefect(called) /\ pc # "validate_args") =>
          /\ pc = "failed"
          /\ net.holders = {} /\ net.layers = <<>> /\ net.phases = <<>>
    /\ (pc = "failed" /\ error.type = "KeyError") =>
          /\ net.holders = AllHolders
          /\ net.phases = <<"validate_args", "build_placeholders">>
    /\ (pc = "failed" /\ error.site = "session") =>
          /\ net.holders = AllHolders
          /\ net.phases = BuildSteps

C5_Witness ==
    /\ pc = "failed"
    /\ ValidationDefect(called)
    /\ error = Err("TypeError", "norm_params shape")
    /\ net.holders = {}

\* C6: an integer n_targets <= 0 makes construction fail before any
\* placeholder or layer exists, with a ValueError when the arguments checked
\* before it are in order.
C6_NonPositiveTargetsRejected ==
    (called.n_targets.ty = "int" /\ called.n_targets.v <= 0
     /\ pc # "validate_args" /\ Constructing) =>
        /\ pc = "failed"
        /\ net.holders = {} /\ net.layers = <<>>
        /\ ShapeAndConfigFine(called) => error = Err("ValueError", "n_targets")

C6_Witness ==
    /\ pc = "failed"
    /\ called.n_targets = PyInt(0)
    /\ error = Err("ValueError", "n_targets")
    /\ net.holders = {}

\* C7: after successful validation every layer spec is a 3-tuple: a 2-tuple
\* has become (kind, primary, {}), a 3-tuple is unchanged; a spec that is no
\* tuple or has another length makes validation fail; well-formed arguments
\* pass.
C7_LayerSpecsNormalized ==
    LET before == called.layers_config.items
        after == net.init_arguments.layers_config.items
    IN  /\ (Constructing /\ Validated) =>
              /\ Len(after) = Len(before)
              /\ \A i \in 1..Len(after) : Len(after[i].items) = 3
        /\ pc \in {"build_placeholders", "build_hidden_layers"} =>
              \A i \in 1..Len(before) :
                  /\ before[i].ty = "tuple"
                  /\ Len(before[i].items) = 2 =>
                        after[i] = Tuple(<<before[i].items[1], before[i].items[2],
                                           PyDict(NoKw)>>)
                  /\ Len(before[i].items) = 3 => after[i] = before[i]
        /\ (SpecMalformed(called) /\ pc # "validate_args") =>
              /\ pc = "failed" /\ error.type = "TypeError" /\ ~Validated
        /\ (Constructing /\ ~ValidationDefect(called)
            /\ Len(called.input_shape.dims) # 1 /\ pc # "validate_args") =>
              Validated

C7_Witness ==
    /\ pc = "build_placeholders"
    /\ \E i \in 1..Len(called.layers_config.items) :
          /\ Len(called.layers_config.items[i].items) = 2
          /\ net.init_arguments.layers_config.items[i].items[3] = PyDict(NoKw)

\* C8: for n_targets > 0 (the other arguments in order), norm_params absent
\* or an array of shape (n_targets,) passes validation, an array of any
\* other shape is rejected.
C8_NormParamsShape ==
    (called.n_targets.ty = "int" /\ called.n_targets.v > 0
     /\ ShapeAndConfigFine(called) /\ pc # "validate_args" /\ Constructing) =>
        /\ (called.norm_params.ty = "NoneType"
            \/ (called.norm_params.ty = "ndarray"
                /\ called.norm_params.shape = <<called.n_targets.v>>))
           => Validated
        /\ (called.norm_params.ty = "ndarray"
            /\ called.norm_params.shape # <<called.n_targets.v>>)
           => (pc = "failed" /\ error = Err("TypeError", "norm_params shape")
               /\ ~Validated)

C8_Witness ==
    /\ Validated
    /\ called.norm_params.ty = "ndarray"
    /\ called.norm_params.shape = <<2>>
    /\ called.n_targets = PyInt(2)

\* C9: every network that passed validation has an input_shape of at least
\* two components.
C9_InputShapeAtLeastTwo ==
    (Constructing /\ Validated) => Len(called.input_shape.dims) >= 2

\* C10: construction runs argument validation, placeholders, hidden layers,
\* readout layer, readout outputs, training function and session assignment
\* in that order, each once, each starting when the previous has completed.
C10_PhasesInOrder ==
    LET order == BuildSteps \o <<"session">> IN
    Constructing =>
        /\ IsPrefix(net.phases, order)
        /\ pc = "done" => net.phases = order
        /\ pc \notin {"done", "failed"} => pc = order[Len(net.phases) + 1]
        /\ net.holders # {} => Validated
        /\ net.layers # <<>> => "build_placeholders" \in Range(net.phases)
        /\ net.session # "unset" => IsPrefix(BuildSteps, net.phases)

C10_Witness ==
    /\ pc = "done"
    /\ Len(net.phases) = 7
    /\ Len(net.layers) = 2
    /\ net.session = "created"

ResetOps == {"reset_model", "reset_model(restart_session=True)"}

\* C11: on a constructed instance a second call of a guarded build step
\* (_validate_args, _build_placeholders, _build_hidden_layers, the three
\* hooks) is rejected and leaves the placeholders, the layer stack and the
\* recorded arguments as they were.
C11_BuildStepsRunOnce ==
    [][op' = "rerun" =>
        /\ error' = Err("RuntimeError", "onetimemethod")
        /\ net'.holders = net.holders
        /\ net'.layers = net.layers
        /\ net'.init_arguments = net.init_arguments
        /\ net'.phases = net.phases]_vars

C11_Witness ==
    /\ op = "rerun"
    /\ error.type = "RuntimeError"
    /\ Len(net.layers) = 2
    /\ net.holders = AllHolders

\* C12: when construction returns, a session passed by the caller is the
\* instance's session and no reset has run; otherwise the instance holds a
\* session it opened itself and the initializer has run in that session.  No
\* session is held before construction has reached its last step.
C12_SessionAssignedLast ==
    /\ pc = "done" =>
          IF Has(called.kwargs, "session")
          THEN /\ net.sess = called.kwargs["session"]
               /\ net.init_in = None
               /\ net.opened = 0
               /\ \A i \in 1..Len(net.layers) : net.layers[i].layer.value = 0
          ELSE /\ net.opened = 1
               /\ net.sess = NewSession(1)
               /\ net.init_in = net.sess
               /\ net.closed = {}
    /\ (Constructing /\ pc # "done") => (net.sess = None /\ net.init_in = None)

C12_Witness ==
    /\ pc = "done"
    /\ Has(called.kwargs, "session")
    /\ net.sess = [ty |-> "Session", v |-> "s"]
    /\ Len(net.layers) = 1

\* C13: reset_model, with or without restart_session, leaves the layer stack
\* as it is: same names, same order, same configuration of every layer.
C13_ResetKeepsArchitecture ==
    [][op' \in ResetOps =>
        /\ architecture(net') = architecture(net)
        /\ Len(net'.layers) = Len(net.layers)
        /\ \A i \in 1..Len(net.layers) :
              /\ net'.layers[i].name = net.layers[i].name
              /\ net'.layers[i].layer.cls = net.layers[i].layer.cls
              /\ net'.layers[i].layer.kwargs = net.layers[i].layer.kwargs]_vars

C13_Witness ==
    /\ op \in ResetOps
    /\ Len(net.layers) = 2
    /\ net.layers[1].layer.value # net.layers[2].layer.value

\* C14: reset_model(restart_session=True) closes the session held, installs
\* a session never held before and runs the initializer in the new one;
\* reset_model() keeps the session object and runs the initializer in it.
\* The initializer never runs in a closed session.
C14_RestartThenInitialize ==
    [][/\ op' = "reset_model(restart_session=True)" =>
            /\ net.sess \in net'.closed
            /\ net'.sess \notin net.closed \cup {net.sess}
            /\ net'.sess \notin net'.closed
            /\ net'.init_in = net'.sess
       /\ op' = "reset_model" =>
            /\ net'.sess = net.sess
            /\ net'.closed = net.closed
            /\ net'.init_in = net.sess]_vars

C14_Witness ==
    /\ op = "reset_model(restart_session=True)"
    /\ net.session = "restarted"
    /\ net.closed = {NewSession(1)}
    /\ net.init_in = NewSession(2)

\* C15: save_model on an instance of a class that keeps the base
\* _adjust_init_arguments_for_saving completes and writes a dump holding the
\* recorded constructor arguments, no reconstruction hints, and the
\* instance's architecture and values.
C15_BaseSaveWritesDump ==
    (op = "save_model" /\ ~net.overrides) =>
        /\ error = NoErr
        /\ disk.exists
        /\ disk.init = net.init_arguments
        /\ disk.rebuild = "None"
        /\ disk.architecture = architecture(net)
        /\ disk.values = get_values(net)

\* the registry as the documentation gives it
RegisteredKinds == {"dense_layer", "rnn_stack", "bi_rnn_stack", "lowpass_filter"}
RegisteredClass(kind) ==
    CASE kind = "dense_layer" -> "DenseLayer"
      [] kind = "rnn_stack" -> "RecurrentNeuralNetwork"
      [] kind = "bi_rnn_stack" -> "BidirectionalRNN"
      [] kind = "lowpass_filter" -> "LowpassFilter"
OtherKinds == {"unknown_kind", "DenseLayer", "dense", "rnn", ""}
KnownKind(e) == e.items[1].ty = "str" /\ e.items[1].v \in RegisteredKinds
UnknownKind(e) == e.items[1].ty = "str" /\ e.items[1].v \notin RegisteredKinds

\* C16: get_layer_class on a string returns the registered class for the four
\* registry names and raises the lookup error for any other string; a
\* construction whose first spec that is no registry name carries an unknown
\* kind name fails with the lookup error naming it.
C16_LayerFactoryOnNames ==
    /\ \A kind \in RegisteredKinds :
          get_layer_class(PyStr(kind)) = [err |-> NoErr, cls |-> RegisteredClass(kind)]
    /\ \A kind \in OtherKinds :
          get_layer_class(PyStr(kind)).err = Err("KeyError", kind)
    /\ (Constructing /\ Validated /\ Len(called.input_shape.dims) # 0
        /\ pc \notin {"build_placeholders", "build_hidden_layers"}) =>
          \A i \in 1..Len(called.layers_config.items) :
              (/\ UnknownKind(called.layers_config.items[i])
               /\ \A j \in 1..(i - 1) : KnownKind(called.layers_config.items[j]))
              => /\ pc = "failed"
                 /\ error = Err("KeyError", called.layers_config.items[i].items[1].v)
                 /\ Len(net.layers) <= i - 1

C16_Witness ==
    /\ pc = "failed"
    /\ error = Err("KeyError", "unknown_kind")
    /\ Len(net.layers) = 1
    /\ net.layers[1].layer.cls = "BidirectionalRNN"

\* C17: load_dumped_model on an existing instance returns None and the
\* instance holds the dumped values; without an instance it returns the
\* instance it built, holding the dumped values; when it raises it returns
\* nothing, so no instance that failed the architecture check is returned.
C17_LoadReturnValue ==
    /\ (op = "restore_model" /\ error = NoErr) =>
          /\ ret = "None"
          /\ get_values(net) = disk.values
    /\ (op = "load_dumped_model" /\ error = NoErr) =>
          /\ ret = "model"
          /\ get_values(net) = disk.values
    /\ (op \in {"restore_model", "load_dumped_model"} /\ error # NoErr) =>
          ret = "raised"
    /\ ret = "model" => (net.alive /\ architecture(net) = disk.architecture)
    /\ ret = "None" => op = "restore_model"

C17_Witness ==
    /\ op = "load_dumped_model"
    /\ ret = "model"
    /\ Len(net.layers) = 2
    /\ net.layers[2].layer.value = MaxVal
    /\ get_values(net) = disk.values

\* C18: once validated, the recorded init arguments stay what validation
\* left: the caller's arguments with every 2-tuple layer spec completed by an
\* empty keyword mapping.
C18_ConfigFrozenAfterValidation ==
    (Constructing /\ Validated) =>
        /\ net.init_arguments.input_shape = called.input_shape
        /\ net.init_arguments.n_targets = called.n_targets
        /\ net.init_arguments.norm_params = called.norm_params
        /\ net.init_arguments.kwargs = called.kwargs
        /\ \A i \in 1..Len(called.layers_config.items) :
              net.init_arguments.layers_config.items[i].items[3] =
                  IF Len(called.layers_config.items[i].items) = 3
                  THEN called.layers_config.items[i].items[3]
                  ELSE PyDict(NoKw)

Trainable(cls) ==
    cls \in {"DenseLayer", "RecurrentNeuralNetwork", "BidirectionalRNN"}
Recurrent(cls) == cls \in {"RecurrentNeuralNetwork", "BidirectionalRNN"}
HiddenBuilt == "build_hidden_layers" \in Range(net.phases)
\* no spec was stored under a key already taken: layer i comes from spec i
OneLayerPerSpec == Len(net.layers) = Len(called.layers_config.items)
CalledKwargs(i) ==
    IF Len(called.layers_config.items[i].items) = 3
    THEN called.layers_config.items[i].items[3].v
    ELSE NoKw

DropoutRule(layer, kw) ==
    IF Trainable(layer.cls)
    THEN /\ layer.keep_prob = IF Has(kw, "keep_prob") THEN kw["keep_prob"]
                              ELSE KeepProbHolder
         /\ ~Has(layer.kwargs, "keep_prob")
    ELSE /\ layer.keep_prob = "absent"
         /\ layer.kwargs = Drop(kw, "name")

BuiltAs(id) ==
    RunInit(NewInstance(called, id, FALSE), 1, [i \in 1..(MaxLayers + 1) |-> 0]).self

\* C20: two instances built from equal arguments have the same layer-stack
\* keys; a recurrent layer is given the stack key suffixed with the identity
\* of its instance as internal name, so the two internal names differ; dense
\* and filter layers are given no name.
C20_RecurrentNamesPerInstance ==
    pc = "done" =>
        \A id \in (1..NumIds) \ {net.id} :
            /\ Len(BuiltAs(id).layers) = Len(net.layers)
            /\ \A i \in 1..Len(net.layers) :
                  LET mine == net.layers[i]
                      theirs == BuiltAs(id).layers[i]
                  IN  /\ theirs.name = mine.name
                      /\ IF Recurrent(mine.layer.cls)
                         THEN /\ mine.layer.kwargs["name"] =
                                    mine.name \o "_" \o ToString(net.id)
                              /\ theirs.layer.kwargs["name"] =
                                    mine.name \o "_" \o ToString(id)
                              /\ theirs.layer.kwargs["name"] # mine.layer.kwargs["name"]
                         ELSE ~Has(mine.layer.kwargs, "name")

C20_Witness ==
    /\ pc = "done"
    /\ Len(net.layers) = 2
    /\ net.layers[1].name = "rnn_stack_0"
    /\ net.layers[1].layer.kwargs = [name |-> "rnn_stack_0_1"]
    /\ net.layers[2].name = "rnn_stack_1"
    /\ net.layers[2].layer.kwargs = [name |-> "rnn_stack_1_1"]

CalledKind(i) == called.layers_config.items[i].items[1]
EarlierOfKind(i) == Cardinality({j \in 1..(i - 1) : CalledKind(j) = CalledKind(i)})
ExpectedName(i) ==
    IF Has(CalledKwargs(i), "name") THEN CalledKwargs(i)["name"]
    ELSE CalledKind(i).v \o "_" \o ToString(EarlierOfKind(i))

\* C21: a spec without a name keyword is stored under <kind>_<n>, n the
\* number of earlier specs of the same kind; a spec with a name keyword is
\* stored under that name.  When no key is taken twice layer i is stored
\* under the name of spec i; in every case the keys of the stack are the
\* names of the specs.
C21_DefaultLayerNames ==
    (Constructing /\ HiddenBuilt) =>
        /\ OneLayerPerSpec =>
              \A i \in 1..Len(net.layers) : net.layers[i].name = ExpectedName(i)
        /\ {net.layers[i].name : i \in 1..Len(net.layers)} =
              {ExpectedName(i) : i \in 1..Len(called.layers_config.items)}

C21_Witness ==
    /\ pc = "done"
    /\ Len(net.layers) = 2
    /\ CalledKwargs(1) = [name |-> "custom"]
    /\ net.layers[1].name = "custom"
    /\ net.layers[2].name = "dense_layer_1"

AcceptedClass(e) ==
    /\ e.items[1].ty = "type"
    /\ issubclass(e.items[1].v, {"AbstractRNN", "NeuralLayer", "SignalFilter"})
SessionFine(a) == Has(a.kwargs, "session") => a.kwargs["session"].ty = "Session"

\* C22: a layer spec whose kind is an accepted class passes validation and
\* is built like a named kind, so a construction whose arguments are valid
\* and whose kinds are registry names or accepted classes succeeds; a class
\* that is not accepted makes construction fail with a TypeError.
C22_ClassKindsBuild ==
    /\ (Constructing /\ ~ValidationDefect(called)
        /\ Len(called.input_shape.dims) >= 2 /\ SessionFine(called)
        /\ \A i \in 1..Len(called.layers_config.items) :
              \/ KnownKind(called.layers_config.items[i])
              \/ AcceptedClass(called.layers_config.items[i]))
       => pc # "failed"
    /\ (Constructing /\ Validated /\ Len(called.layers_config.items) > 0
        /\ called.layers_config.items[1].items[1].ty = "type"
        /\ ~AcceptedClass(called.layers_config.items[1])
        /\ Len(called.input_shape.dims) # 0
        /\ pc \notin {"build_placeholders", "build_hidden_layers"})
       => (pc = "failed" /\ error.type = "TypeError")

(***************************************************************************)
(* extract_h5_features: corpora/prototype/abx/_abx.py, data/mngu0/abx/     *)
(* In this specification disk is the abx folder and the corpus, called the *)
(* frame of the running call (arguments and locals), ret the effects on    *)
(* collaborators in order, pc the position in the function.                *)
(***************************************************************************)
BatchSize == 100        \* the step of range(0, len(utterances), 100)
MaxUtterances == 201    \* largest corpus drawn

\* bool(x) of an argument
truthy(x) ==
    CASE x.ty = "NoneType" -> FALSE
      [] x.ty = "str" -> x.v # ""
      [] x.ty = "tuple" -> Len(x.items) > 0
      [] OTHER -> TRUE

\* os.path.isfile reporting no file
isfile_never(folder, name) == FALSE
\* os.path.isfile on a file of the abx folder
isfile(folder, name) == folder.isdir /\ folder[name].kind # "absent"

\* a file of the abx folder: absent, left by an earlier run, or being written
File(kind, batches) == [kind |-> kind, batches |-> batches]

Loader(fn, bound) == [fn |-> fn, bound |-> bound]
NoLoader == Loader("none", {})

\* _setup_features_loader of data/mngu0/abx/_abx.py
setup_features_loader_mngu0(audio_features, ema_features) ==
    IF audio_features = None /\ ema_features = None
    THEN [err |-> Err("RuntimeError", "No features"), loader |-> NoLoader]
    ELSE LET audio == IF truthy(audio_features) THEN {"load_audio"} ELSE {}
             both == audio \cup (IF truthy(ema_features)
                                 THEN {"load_articulatory"} ELSE {})
         IN  IF truthy(audio_features) /\ ema_features = None
             THEN [err |-> NoErr, loader |-> Loader("load_audio", audio)]
             ELSE IF truthy(ema_features) /\ audio_features = None
             THEN [err |-> NoErr, loader |-> Loader("load_articulatory", both)]
             ELSE [err |-> NoErr, loader |-> Loader("load_features", both)]

\* _setup_features_loader of corpora/prototype/abx/_abx.py
setup_features_loader_prototype(audio_features, ema_features, inverter) ==
    IF audio_features = None /\ ema_features = None
    THEN [err |-> Err("RuntimeError", "No features"), loader |-> NoLoader]
    ELSE IF inverter # None /\ audio_features = None
    THEN [err |-> Err("RuntimeError", "No acoustic features"), loader |-> NoLoader]
    ELSE IF inverter # None /\ ema_features # None
    THEN [err |-> Err("RuntimeError", "Both ema and inverter"), loader |-> NoLoader]
    ELSE LET audio == IF audio_features # None THEN {"load_audio"} ELSE {}
             both == audio \cup (IF ema_features # None
                                 THEN {"load_articulatory"} ELSE {})
         IN  IF audio_features # None /\ inverter # None
             THEN [err |-> NoErr, loader |-> Loader("invert_features", audio)]
             ELSE IF audio_features # None /\ ema_features = None
             THEN [err |-> NoErr, loader |-> Loader("load_audio", audio)]
             ELSE IF ema_features # None /\ audio_features = None
             THEN [err |-> NoErr, loader |-> Loader("load_articulatory", both)]
             ELSE [err |-> NoErr, loader |-> Loader("load_features", both)]

setup_features_loader(frame) ==
    IF frame.version = "mngu0"
    THEN setup_features_loader_mngu0(frame.audio_features, frame.ema_features)
    ELSE setup_features_loader_prototype(frame.audio_features,
                                         frame.ema_features, frame.inverter)

\* the number of frames the corpus holds for an utterance
Frames(utterance) == (utterance % 3) + 1
Matrix(rows, cols) == [rows |-> rows, cols |-> cols]
NoData == Matrix(0, <<>>)

\* np.concatenate([a, b], axis=1)
concatenate(a, b) == Matrix(a.rows, a.cols \o b.cols)

\* the call loader(utterance): a free variable of the closure that was
\* never assigned raises NameError
CallLoader(loader, utterance) ==
    LET audio == Matrix(Frames(utterance), <<"audio">>)
        ema == Matrix(Frames(utterance), <<"ema">>)
    IN  CASE loader.fn = "load_audio" -> [err |-> NoErr, data |-> audio]
          [] loader.fn = "load_articulatory" -> [err |-> NoErr, data |-> ema]
          [] loader.fn = "invert_features" ->
                [err |-> NoErr, data |-> Matrix(Frames(utterance), <<"pred">>)]
          [] OTHER ->
                IF "load_audio" \notin loader.bound
                THEN [err |-> Err("NameError", "load_audio"), data |-> NoData]
                ELSE IF "load_articulatory" \notin loader.bound
                THEN [err |-> Err("NameError", "load_articulatory"),
                      data |-> NoData]
                ELSE [err |-> NoErr, data |-> concatenate(audio, ema)]

\* get_utterances(): the utterances of the corpus, in its order
get_utterances(corpus) == [k \in 1..corpus |-> k]

\* utterances[i:i + 100]
Slice(q, i, j) == SubSeq(q, i + 1, IF j < Len(q) THEN j ELSE Len(q))

\* np.arange(len(data)) / sampling_rate, each label kept as a fraction
TimeLabels(data, sampling_rate) ==
    [k \in 1..data.rows |-> [num |-> k - 1, den |-> sampling_rate]]

\* h5f.Data(items, labels, features)
Data(items, labels, features) ==
    [items |-> items, labels |-> labels, features |-> features]

(************************ inputs *******************************************)
AudioFeatures(version) ==
    IF version = "mngu0"
    THEN {None, Tuple(<<>>), Tuple(<<PyStr("mfcc")>>)}
    ELSE {None, PyStr("mfcc")}
EmaFeatures == {None, PyStr(""), PyStr("norm")}
Inverters(version) ==
    IF version = "mngu0" THEN {None} ELSE {None, [ty |-> "NeuralNetwork"]}
SamplingRates == {100, 200}
CorpusSizes ==
    {0, 1, BatchSize - 1, BatchSize, BatchSize + 1, 2 * BatchSize, MaxUtterances}
Folders ==
    {[isdir |-> d, output |-> f] :
        d \in BOOLEAN, f \in {File("absent", <<>>), File("old", <<>>)}}
    \ {[isdir |-> FALSE, output |-> File("old", <<>>)]}
ExtractFrames ==
    {[version |-> v, audio_features |-> a, ema_features |-> e, inverter |-> n,
      sampling_rate |-> r, load_features |-> NoLoader, utterances |-> <<>>,
      i |-> 0] :
        v \in {"prototype"}, a \in AudioFeatures("prototype"), e \in EmaFeatures,
        n \in Inverters("prototype"), r \in SamplingRates}
    \cup
    {[version |-> v, audio_features |-> a, ema_features |-> e, inverter |-> n,
      sampling_rate |-> r, load_features |-> NoLoader, utterances |-> <<>>,
      i |-> 0] :
        v \in {"mngu0"}, a \in AudioFeatures("mngu0"), e \in EmaFeatures,
        n \in Inverters("mngu0"), r \in SamplingRates}

InitExtract ==
    /\ called \in ExtractFrames
    /\ \E folder \in Folders, corpus \in CorpusSizes :
          disk = [folder |-> folder, corpus |-> corpus]
    /\ pc = "check_output"
    /\ error = NoErr
    /\ op = "extract_h5_features"
    /\ ret = <<>>
    /\ net = NoNet
    /\ owner = FALSE

\* the folder is made when missing (prototype), then the destination is
\* checked
CheckOutput ==
    /\ pc = "check_output"
    /\ \E folder \in {IF called.version = "prototype" /\ ~disk.folder.isdir
                      THEN [disk.folder EXCEPT !.isdir = TRUE]
                      ELSE disk.folder} :
          /\ disk' = [disk EXCEPT !.folder = folder]
          /\ ret' = IF folder # disk.folder THEN Append(ret, "makedirs") ELSE ret
          /\ IF isfile(folder, "output")
             THEN pc' = "failed" /\ error' = Err("FileExistsError", "output_file")
             ELSE pc' = "setup_features_loader" /\ error' = error
    /\ UNCHANGED <<called, op, net, owner>>

SetupFeaturesLoader ==
    /\ pc = "setup_features_loader"
    /\ \E r \in {setup_features_loader(called)} :
          IF r.err # NoErr
          THEN /\ pc' = "failed"
               /\ error' = r.err
               /\ called' = called
          ELSE /\ pc' = "open_writer"
               /\ error' = error
               /\ called' = [called EXCEPT !.load_features = r.loader]
    /\ UNCHANGED <<disk, ret, op, net, owner>>

\* utterances = get_utterances(); with h5f.Writer(output_file) as writer
OpenWriter ==
    /\ pc = "open_writer"
    /\ called' = [called EXCEPT !.utterances = get_utterances(disk.corpus)]
    /\ IF ~disk.folder.isdir
       THEN /\ pc' = "failed"
            /\ error' = Err("OSError", "output_file")
            /\ disk' = disk
            /\ ret' = Append(ret, "get_utterances")
       ELSE /\ pc' = "loop"
            /\ error' = error
            /\ disk' = [disk EXCEPT !.folder.output = File("h5", <<>>)]
            /\ ret' = ret \o <<"get_utterances", "Writer">>
    /\ UNCHANGED <<op, net, owner>>

\* one iteration of the loop over range(0, len(utterances), 100)
WriteBatch ==
    /\ pc = "loop"
    /\ called.i < Len(called.utterances)
    /\ \E items \in {Slice(called.utterances, called.i, called.i + BatchSize)} :
       \E loaded \in {[k \in 1..Len(items) |->
                          CallLoader(called.load_features, items[k])]} :
          IF \E k \in 1..Len(items) : loaded[k].err # NoErr
          THEN /\ pc' = "failed"
               /\ error' = loaded[CHOOSE k \in 1..Len(items) :
                                     /\ loaded[k].err # NoErr
                                     /\ \A j \in 1..(k - 1) :
                                           loaded[j].err = NoErr].err
               /\ UNCHANGED <<called, disk, ret>>
          ELSE LET features == [k \in 1..Len(items) |-> loaded[k].data]
                   labels == [k \in 1..Len(items) |->
                                 TimeLabels(features[k], called.sampling_rate)]
               IN  /\ disk' = [disk EXCEPT !.folder.output.batches =
                                  Append(@, Data(items, labels, features))]
                   /\ ret' = Append(ret, "write")
                   /\ called' = [called EXCEPT !.i = @ + BatchSize]
                   /\ UNCHANGED <<pc, error>>
    /\ UNCHANGED <<op, net, owner>>

\* the range is exhausted: the writer is closed and the call returns
CloseWriter ==
    /\ pc = "loop"
    /\ called.i >= Len(called.utterances)
    /\ pc' = "done"
    /\ ret' = Append(ret, "close")
    /\ UNCHANGED <<called, disk, error, op, net, owner>>

NextExtract ==
    \/ CheckOutput
    \/ SetupFeaturesLoader
    \/ OpenWriter
    \/ WriteBatch
    \/ CloseWriter

SpecExtract == InitExtract /\ [][NextExtract]_vars

(************************ properties of extract_h5_features ****************)
ExpectedColumns(frame) ==
    IF frame.ema_features = None THEN <<"audio">>
    ELSE IF frame.audio_features = None THEN <<"ema">>
    ELSE <<"audio", "ema">>
NoFeatures(frame) == frame.audio_features = None /\ frame.ema_features = None
LoaderSet == called.load_features # NoLoader

\* C23: the mngu0 loader set up from arguments of which at least one is not
\* None can be called on an utterance and yields the audio features when
\* ema_features is None, the EMA features when audio_features is None and
\* audio then EMA otherwise; with both None the set-up raises RuntimeError.
C23_LoaderYieldsRequestedFeatures ==
    (op = "extract_h5_features" /\ called.version = "mngu0") =>
        /\ (pc = "open_writer" /\ ~NoFeatures(called)) =>
              \A u \in 1..3 :
                 CallLoader(called.load_features, u) =
                    [err |-> NoErr,
                     data |-> Matrix(Frames(u), ExpectedColumns(called))]
        /\ (NoFeatures(called) /\ ~isfile(disk.folder, "output")
            /\ pc # "check_output" /\ pc # "setup_features_loader")
              => (pc = "failed" /\ error.type = "RuntimeError")

OutputExisted == disk.folder.output.kind = "old"

\* C24: when the destination file exists the call raises FileExistsError
\* before the utterances are listed, a feature is loaded or the writer is
\* opened, and the file keeps its content (both versions).
C24_ExistingOutputUntouched ==
    /\ []((op = "extract_h5_features" /\ OutputExisted /\ pc # "check_output")
            => /\ pc = "failed"
               /\ error.type = "FileExistsError"
               /\ ret = <<>>
               /\ called.utterances = <<>>
               /\ ~LoaderSet)
    /\ [][(op = "extract_h5_features" /\ OutputExisted)
            => disk'.folder.output = disk.folder.output]_vars

C24_Witness ==
    /\ op = "extract_h5_features"
    /\ pc = "failed"
    /\ error.type = "FileExistsError"
    /\ OutputExisted
    /\ disk.corpus > BatchSize
    /\ ~NoFeatures(called)

WriterOpened == op = "extract_h5_features" /\ pc \in {"loop", "done", "failed"}
                   /\ Len(ret) > 0 /\ ret[Len(ret)] # "get_utterances"
                   /\ "Writer" \in Range(ret)
Written == disk.folder.output.batches
ItemsWritten ==
    IF Len(Written) = 0 THEN 0
    ELSE BatchSize * (Len(Written) - 1) + Len(Written[Len(Written)].items)

\* the batches written so far hold the first utterances of the list, each
\* once and in order, at most 100 to a batch, with one label array and one
\* feature array per item and label k equal to k / sampling_rate
BatchesWellFormed ==
    /\ ItemsWritten <= Len(called.utterances)
    /\ \A b \in 1..Len(Written) :
          /\ Len(Written[b].items) \in 1..BatchSize
          /\ b < Len(Written) => Len(Written[b].items) = BatchSize
          /\ Len(Written[b].labels) = Len(Written[b].items)
          /\ Len(Written[b].features) = Len(Written[b].items)
          /\ \A k \in 1..Len(Written[b].items) :
                /\ Written[b].items[k] =
                      called.utterances[BatchSize * (b - 1) + k]
                /\ Len(Written[b].labels[k]) = Written[b].features[k].rows
                /\ Written[b].features[k].rows > 0
                /\ \A j \in 1..Len(Written[b].labels[k]) :
                      Written[b].labels[k][j] =
                         [num |-> j - 1, den |-> called.sampling_rate]

\* C25: once the writer is open the call writes every utterance of the list
\* exactly once, in order, in consecutive batches of at most 100 items with
\* their labels and features, and the loop ends after
\* ceil(len(utterances) / 100) writes, none for an empty list (both versions).
C25_EveryUtteranceWrittenOnce ==
    WriterOpened =>
        /\ BatchesWellFormed
        /\ pc # "loop" =>
              /\ pc = "done"
              /\ ItemsWritten = Len(called.utterances)
              /\ Len(Written) = (Len(called.utterances) + BatchSize - 1) \div BatchSize
              /\ Len(SelectSeq(ret, LAMBDA e : e = "write")) = Len(Written)

\* the same for the calls that return
ReturnedCallsWroteAll ==
    (WriterOpened /\ pc # "failed") => C25_EveryUtteranceWrittenOnce

(***************************************************************************)
(* abx_from_features, make_abx_task, make_itemfile: corpora/prototype/abx/ *)
(* and data/mngu0/abx/.  disk is the abx folder, called the arguments, ret *)
(* the calls made in order, op the function the user called.               *)
(***************************************************************************)
\* os.path.exists reporting a file
exists_always(folder, name) == TRUE
\* os.path.exists on a file of the abx folder
exists(folder, name) == folder.isdir /\ folder[name].kind # "absent"

AbxFolders ==
    {[isdir |-> TRUE, features |-> File(f, <<>>), task |-> File(t, <<>>),
      item |-> File(i, <<>>), scores |-> File("absent", <<>>)] :
        f \in {"absent", "old"}, t \in {"absent", "old"}, i \in {"absent", "old"}}
AbxArgs ==
    {[version |-> v, features |-> PyStr("feat"), fileset |-> f, n_jobs |-> n] :
        v \in {"prototype", "mngu0"}, f \in {None, PyStr("train")},
        n \in {PyInt(1), PyInt(0), PyStr("1")}}

InitAbx ==
    /\ called \in AbxArgs
    /\ \E folder \in AbxFolders : disk = [folder |-> folder]
    /\ \/ op = "abx_from_features" /\ pc = "check_arguments"
       \/ op = "make_abx_task" /\ pc = "make_abx_task"
    /\ error = NoErr
    /\ ret = <<>>
    /\ net = NoNet
    /\ owner = FALSE

\* the type checks, then the check that the features file exists
CheckFeaturesFile ==
    /\ pc = "check_arguments"
    /\ \E e \in {IF ~check_type_validity(called.features, {"str"})
                 THEN Err("TypeError", "features")
                 ELSE IF ~check_type_validity(called.fileset, {"str", "NoneType"})
                 THEN Err("TypeError", "fileset")
                 ELSE IF check_positive_int(called.n_jobs, "n_jobs") # NoErr
                 THEN check_positive_int(called.n_jobs, "n_jobs")
                 ELSE IF ~exists(disk.folder, "features")
                 THEN Err("FileNotFoundError", "features_file")
                 ELSE NoErr} :
          /\ error' = e
          /\ pc' = IF e # NoErr THEN "failed" ELSE "task_file"
    /\ UNCHANGED <<called, disk, ret, op, net, owner>>

\* if not os.path.isfile(task_file): make_abx_task(...)
TaskFileStep ==
    /\ pc = "task_file"
    /\ IF ~isfile(disk.folder, "task")
       THEN pc' = "make_abx_task" /\ ret' = Append(ret, "make_abx_task")
       ELSE pc' = "abxpy_pipeline" /\ ret' = ret
    /\ UNCHANGED <<called, disk, error, op, net, owner>>

\* make_abx_task up to the call of abxpy_task
ItemFileStep ==
    /\ pc = "make_abx_task"
    /\ pc' = IF ~isfile(disk.folder, "item") THEN "make_itemfile" ELSE "abxpy_task"
    /\ UNCHANGED <<called, disk, error, ret, op, net, owner>>

\* make_itemfile: the file is opened for writing, then filled utterance by
\* utterance; loading the labels of an utterance may raise
MakeItemfile ==
    /\ pc = "make_itemfile"
    /\ disk' = [disk EXCEPT !.folder.item = File("new", <<>>)]
    /\ ret' = Append(ret, "make_itemfile")
    /\ \/ pc' = "abxpy_task" /\ error' = error
       \/ pc' = "failed" /\ error' = Err("Exception", "load_phone_labels")
    /\ UNCHANGED <<called, op, net, owner>>

\* abxpy_task(item_file, output_file, ...): writes the task file or raises
AbxpyTask ==
    /\ pc = "abxpy_task"
    /\ ret' = Append(ret, "abxpy_task")
    /\ \/ /\ disk' = [disk EXCEPT !.folder.task = File("new", <<>>)]
          /\ pc' = IF op = "make_abx_task" THEN "done" ELSE "abxpy_pipeline"
          /\ error' = error
       \/ /\ disk' = disk
          /\ pc' = "failed"
          /\ error' = Err("Exception", "abxpy_task")
    /\ UNCHANGED <<called, op, net, owner>>

\* abxpy_pipeline(features_file, task_file, scores_file, n_jobs)
AbxpyPipeline ==
    /\ pc = "abxpy_pipeline"
    /\ ret' = Append(ret, "abxpy_pipeline")
    /\ \/ /\ disk' = [disk EXCEPT !.folder.scores = File("new", <<>>)]
          /\ pc' = IF called.version = "prototype" THEN "add_ipa_symbols"
                   ELSE "done"
          /\ error' = error
       \/ /\ disk' = disk
          /\ pc' = "failed"
          /\ error' = Err("Exception", "abxpy_pipeline")
    /\ UNCHANGED <<called, op, net, owner>>

\* add_ipa_symbols(scores_file): the scores file is read and written back
AddIpaSymbols ==
    /\ pc = "add_ipa_symbols"
    /\ ret' = Append(ret, "add_ipa_symbols")
    /\ pc' = "done"
    /\ disk' = [disk EXCEPT !.folder.scores = File("ipa", <<>>)]
    /\ UNCHANGED <<called, error, op, net, owner>>

NextAbx ==
    \/ CheckFeaturesFile
    \/ TaskFileStep
    \/ ItemFileStep
    \/ MakeItemfile
    \/ AbxpyTask
    \/ AbxpyPipeline
    \/ AddIpaSymbols

SpecAbx == InitAbx /\ [][NextAbx]_vars

(************************ properties of the abx chain **********************)
Calls(name) == Len(SelectSeq(ret, LAMBDA e : e = name))
FirstCall(name) == CHOOSE i \in 1..Len(ret) : ret[i] = name
ArgumentsFine ==
    /\ check_type_validity(called.features, {"str"})
    /\ check_type_validity(called.fileset, {"str", "NoneType"})
    /\ check_positive_int(called.n_jobs, "n_jobs") = NoErr

\* C26: abx_from_features on a missing features file raises before any
\* other effect: no item or task file is created and neither abxpy_task nor
\* abxpy_pipeline is called; the error is FileNotFoundError whenever the
\* arguments pass the type checks that precede the test (both versions).
C26_MissingFeaturesNoEffect ==
    (op = "abx_from_features" /\ disk.folder.features.kind = "absent"
     /\ pc # "check_arguments") =>
        /\ pc = "failed"
        /\ ret = <<>>
        /\ disk.folder.item.kind # "new"
        /\ disk.folder.task.kind # "new"
        /\ disk.folder.scores.kind = "absent"
        /\ ArgumentsFine => error.type = "FileNotFoundError"

C26_Witness ==
    /\ op = "abx_from_features"
    /\ pc = "failed"
    /\ error.type = "FileNotFoundError"
    /\ disk.folder.features.kind = "absent"
    /\ disk.folder.task.kind = "absent"
    /\ disk.folder.item.kind = "absent"

\* C27: abx_from_features calls make_abx_task only when the task file is
\* absent and make_abx_task calls make_itemfile only when the item file is
\* absent; a task or item file found is never rewritten; abxpy_task is only
\* called with an item file that exists; the pipeline runs after the
\* task-file step, followed once by add_ipa_symbols in the prototype.
C27_LazyBuildChain ==
    /\ []((op \in {"abx_from_features", "make_abx_task"}) =>
            /\ Calls("make_abx_task") > 0 => disk.folder.task.kind # "old"
            /\ Calls("make_itemfile") > 0 => disk.folder.item.kind # "old"
            /\ Calls("make_abx_task") <= 1 /\ Calls("make_itemfile") <= 1
            /\ Calls("abxpy_task") > 0 => disk.folder.item.kind # "absent"
            /\ (op = "abx_from_features" /\ Calls("abxpy_task") > 0)
                  => Calls("make_abx_task") = 1
            /\ Calls("abxpy_pipeline") > 0 =>
                  /\ Calls("abxpy_task") > 0 =>
                        FirstCall("abxpy_task") < FirstCall("abxpy_pipeline")
                  /\ Calls("abxpy_task") = 0 => disk.folder.task.kind = "old"
            /\ Calls("add_ipa_symbols") > 0 =>
                  /\ called.version = "prototype"
                  /\ ret[Len(ret)] = "add_ipa_symbols"
                  /\ ret[Len(ret) - 1] = "abxpy_pipeline"
            /\ (op = "abx_from_features" /\ pc = "done") =>
                  /\ Calls("abxpy_pipeline") = 1
                  /\ Calls("add_ipa_symbols") =
                        IF called.version = "prototype" THEN 1 ELSE 0)
    /\ [][(op \in {"abx_from_features", "make_abx_task"}) =>
            /\ (op = "abx_from_features" /\ disk.folder.task.kind = "old")
                  => disk'.folder.task = disk.folder.task
            /\ disk.folder.item.kind = "old"
                  => disk'.folder.item = disk.folder.item]_vars

C27_Witness ==
    /\ op = "abx_from_features"
    /\ pc = "done"
    /\ called.version = "prototype"
    /\ disk.folder.item.kind = "old"
    /\ disk.folder.task.kind = "new"
    /\ ret = <<"make_abx_task", "abxpy_task", "abxpy_pipeline", "add_ipa_symbols">>

(***************************************************************************)
(* normalize_files: corpora/prototype/preprocess/_normalize.py.  disk is   *)
(* the processed folder (the moments file of each unit and the normalized  *)
(* outputs), called the arguments and the speakers still to process, ret   *)
(* the loads, computations and writes in order.                            *)
(***************************************************************************)
SPEAKERS == <<"spk1", "spk2">>
\* the keys of a moments dict
MomentsKeys ==
    {"file_means", "file_stds", "file_spread",
     "global_means", "global_stds", "global_spread"}

\* the unit whose moments file _get_normfile_path names
UnitOf(speaker) == IF speaker = None THEN "corpus" ELSE speaker.v

\* the units whose moments compute_moments computes and stores
compute_moments(by_speaker) ==
    IF by_speaker THEN {SPEAKERS[i] : i \in 1..Len(SPEAKERS)} ELSE {"corpus"}

NormalizeArgs ==
    {[file_type |-> f, norm_type |-> n, scope |-> s, speakers |-> <<>>,
      norm_name |-> "none"] :
        f \in {"ema", "mfcc"}, n \in {"stds", "spread", "means", "minmax"},
        s \in {"corpus", "speaker", "file", "utterance"}}
MomentsFolders ==
    {[isdir |-> TRUE, corpus |-> File(c, <<>>), spk1 |-> File(a, <<>>),
      spk2 |-> File(b, <<>>)] :
        c \in {"absent", "old"}, a \in {"absent", "old"}, b \in {"absent", "old"}}

InitNormalize ==
    /\ called \in NormalizeArgs
    /\ \E folder \in MomentsFolders : disk = [folder |-> folder, outputs |-> {}]
    /\ pc = "normalize_files"
    /\ op = "normalize_files"
    /\ error = NoErr
    /\ ret = <<>>
    /\ net = NoNet
    /\ owner = FALSE

\* the dispatch on scope
NormalizeFiles ==
    /\ pc = "normalize_files"
    /\ CASE called.scope = "corpus" ->
              /\ called' = [called EXCEPT !.speakers = <<None>>]
              /\ pc' = "corpus_wide_normalize" /\ error' = error
         [] called.scope = "speaker" ->
              /\ called' = [called EXCEPT !.speakers =
                               [i \in 1..Len(SPEAKERS) |-> PyStr(SPEAKERS[i])]]
              /\ pc' = "corpus_wide_normalize" /\ error' = error
         [] called.scope = "file" ->
              /\ called' = [called EXCEPT !.speakers = <<None>>]
              /\ pc' = "file_wise_normalize" /\ error' = error
         [] OTHER ->
              /\ called' = called
              /\ pc' = "failed" /\ error' = Err("ValueError", "scope")
    /\ UNCHANGED <<disk, ret, op, net, owner>>

\* _corpus_wide_normalize up to the call of _conduct_normalization: the
\* moments are loaded or computed, then the norm_type entry is looked up
GatherMoments ==
    /\ pc = "corpus_wide_normalize"
    /\ \E speaker \in {Head(called.speakers)} :
          /\ IF isfile(disk.folder, UnitOf(speaker))
             THEN /\ ret' = Append(ret, "load:" \o UnitOf(speaker))
                  /\ disk' = disk
             ELSE \E stored \in {compute_moments(speaker # None)} :
                  /\ ret' = Append(ret, "compute_moments")
                  /\ disk' = [disk EXCEPT !.folder =
                                 [k \in DOMAIN @ |->
                                     IF k \in stored THEN File("new", <<>>)
                                     ELSE @[k]]]
          /\ IF ("global_" \o called.norm_type) \in MomentsKeys
             THEN /\ pc' = "conduct_normalization"
                  /\ error' = error
                  /\ called' = [called EXCEPT !.norm_name =
                                   called.norm_type \o
                                   (IF speaker = None THEN "" ELSE "_byspeaker")]
             ELSE /\ pc' = "failed"
                  /\ error' = Err("KeyError", "global_" \o called.norm_type)
                  /\ called' = called
    /\ UNCHANGED <<op, net, owner>>

\* _file_wise_normalize up to the call of _conduct_normalization
FileWiseNormalize ==
    /\ pc = "file_wise_normalize"
    /\ IF called.norm_type \in {"stds", "spread"}
       THEN /\ pc' = "conduct_normalization"
            /\ error' = error
            /\ called' = [called EXCEPT !.norm_name = called.norm_type \o "_byfile"]
       ELSE /\ pc' = "failed"
            /\ error' = Err("KeyError", "norm_type")
            /\ called' = called
    /\ UNCHANGED <<disk, ret, op, net, owner>>

\* _conduct_normalization for the utterances of one unit, then the next
\* speaker or the return
ConductNormalization ==
    /\ pc = "conduct_normalization"
    /\ \E output_folder \in {called.file_type \o "_norm_" \o called.norm_name} :
          /\ disk' = [disk EXCEPT !.outputs = @ \cup
                        {[folder |-> output_folder,
                          files |-> UnitOf(Head(called.speakers))]} \cup
                        (IF called.file_type = "ema"
                         THEN {[folder |-> output_folder, files |-> "articulators"]}
                         ELSE {})]
          /\ ret' = Append(ret, "write:" \o output_folder)
    /\ called' = [called EXCEPT !.speakers = Tail(@)]
    /\ pc' = IF Len(called.speakers) > 1 THEN "corpus_wide_normalize" ELSE "done"
    /\ UNCHANGED <<error, op, net, owner>>

NextNormalize ==
    \/ NormalizeFiles
    \/ GatherMoments
    \/ FileWiseNormalize
    \/ ConductNormalization

SpecNormalize == InitNormalize /\ [][NextNormalize]_vars

(************************ properties of normalize_files ********************)
Units == {"corpus", "spk1", "spk2"}

\* C28: with scope 'corpus' or 'speaker' the moments of a unit are loaded
\* when its moments file exists and computed only when it does not, and a
\* moments file that existed when the call started is never recomputed or
\* overwritten.
C28_MomentsCache ==
    [][(op = "normalize_files" /\ pc = "corpus_wide_normalize") =>
          /\ \A u \in Units :
                disk.folder[u].kind = "old" => disk'.folder[u] = disk.folder[u]
          /\ LET unit == UnitOf(Head(called.speakers))
             IN  IF disk.folder[unit].kind # "absent"
                 THEN ret' = Append(ret, "load:" \o unit)
                 ELSE ret' = Append(ret, "compute_moments")]_vars

\* C29: a scope outside {'corpus', 'speaker', 'file'} raises ValueError and
\* a norm_type outside {'stds', 'spread'} raises an error in every scope;
\* when the error is raised no normalized file is written and no output
\* folder made.
C29_BadArgumentsRejected ==
    (op = "normalize_files" /\ pc # "normalize_files") =>
        /\ called.scope \notin {"corpus", "speaker", "file"} =>
              /\ pc = "failed"
              /\ error.type = "ValueError"
              /\ disk.outputs = {}
        /\ (called.scope \in {"corpus", "speaker", "file"}
            /\ called.norm_type \notin {"stds", "spread"}
            /\ pc \notin {"corpus_wide_normalize", "file_wise_normalize"}) =>
              /\ pc = "failed"
              /\ error.type \in {"KeyError", "ValueError"}
              /\ disk.outputs = {}

(***************************************************************************)
(* reduce_finite_mean: internal/tf_utils/_tf_utils.py.  called holds the   *)
(* tensor (a matrix, as a sequence of rows) and the axis, ret the tensor   *)
(* returned.  A float is finite, kept as a fraction, or the non-finite     *)
(* marker.                                                                 *)
(***************************************************************************)
MaxDim == 2     \* largest number of rows and of columns drawn

Fin(v) == [fin |-> TRUE, num |-> v, den |-> 1]
NonFinite == [fin |-> FALSE, num |-> 0, den |-> 0]

\* a / tf.cast(n, tf.float32)
Divide(a, n) ==
    IF ~a.fin \/ n = 0 THEN NonFinite
    ELSE [fin |-> TRUE, num |-> a.num, den |-> n]

\* the indices of the result, and the positions reduced into each
OutIndex(tensor, axis) ==
    IF axis = None THEN {1}
    ELSE IF axis.v = 0 THEN 1..Len(tensor[1]) ELSE 1..Len(tensor)
Positions(tensor, axis, k) ==
    IF axis = None THEN (1..Len(tensor)) \X (1..Len(tensor[1]))
    ELSE IF axis.v = 0 THEN (1..Len(tensor)) \X {k}
    ELSE {k} \X (1..Len(tensor[1]))

\* tf.reduce_sum over the positions ps of a float tensor
RECURSIVE reduce_sum(_, _)
reduce_sum(tensor, ps) ==
    IF ps = {} THEN Fin(0)
    ELSE LET p == CHOOSE q \in ps : TRUE
             x == tensor[p[1]][p[2]]
             rest == reduce_sum(tensor, ps \ {p})
         IN  IF x.fin /\ rest.fin THEN Fin(x.num + rest.num) ELSE NonFinite

\* the length of the reduced axis: the ones of the whole tensor,
\* tensor_length(tensor), or tensor_length of the transposed tensor
length(tensor, axis) ==
    IF axis = None THEN Len(tensor) * Len(tensor[1])
    ELSE IF axis.v = 0 THEN Len(tensor) ELSE Len(tensor[1])

reduce_finite_mean(tensor, axis) ==
    LET is_finite == [r \in 1..Len(tensor) |->
                         [c \in 1..Len(tensor[1]) |-> tensor[r][c].fin]]
        filled == [r \in 1..Len(tensor) |->
                      [c \in 1..Len(tensor[1]) |->
                          IF is_finite[r][c] THEN Fin(0) ELSE tensor[r][c]]]
    IN  [k \in OutIndex(tensor, axis) |->
            LET ps == Positions(tensor, axis, k)
                n_obs == length(tensor, axis)
                            - Cardinality({p \in ps : is_finite[p[1]][p[2]]})
                sums == reduce_sum(filled, ps)
            IN  Divide(sums, n_obs)]

Tensors ==
    UNION {[1..r -> [1..c -> {Fin(1), Fin(2), NonFinite}]] :
              r \in 1..MaxDim, c \in 1..MaxDim}
Axes == {None, PyInt(0), PyInt(1), PyStr("0")}

InitFinite ==
    /\ called \in [tensor : Tensors, axis : Axes]
    /\ pc = "call"
    /\ op = "reduce_finite_mean"
    /\ error = NoErr
    /\ ret = <<>>
    /\ disk = NoDump
    /\ net = NoNet
    /\ owner = FALSE

ReduceFiniteMean ==
    /\ pc = "call"
    /\ IF ~check_type_validity(called.axis, {"int", "NoneType"})
       THEN /\ pc' = "failed"
            /\ error' = Err("TypeError", "axis")
            /\ ret' = ret
       ELSE /\ pc' = "returned"
            /\ error' = error
            /\ ret' = reduce_finite_mean(called.tensor, called.axis)
    /\ UNCHANGED <<called, disk, op, net, owner>>

NextFinite ==
    \/ ReduceFiniteMean

SpecFinite == InitFinite /\ [][NextFinite]_vars

(************************ properties of reduce_finite_mean *****************)
FinitePositions(tensor, ps) == {p \in ps : tensor[p[1]][p[2]].fin}
RECURSIVE SumOfFinite(_, _)
SumOfFinite(tensor, ps) ==
    IF ps = {} THEN 0
    ELSE LET p == CHOOSE q \in ps : TRUE
         IN  tensor[p[1]][p[2]].num + SumOfFinite(tensor, ps \ {p})
FiniteMean(tensor, axis) ==
    [k \in OutIndex(tensor, axis) |->
        LET ps == FinitePositions(tensor, Positions(tensor, axis, k))
        IN  Divide(Fin(SumOfFinite(tensor, ps)), Cardinality(ps))]

\* C30: reduce_finite_mean returns, along the reduction axis, the sum of the
\* finite elements divided by the number of finite elements.
C30_MeanOfFiniteElements ==
    (op = "reduce_finite_mean" /\ pc = "returned") =>
        ret = FiniteMean(called.tensor, called.axis)

====
